---- MODULE Spec2Model ----
(***************************************************************************)
(* BizChat assistant: the session store of app/main.py and the Chatbot     *)
(* class of app/chatbot.py (history, normalisation, intent matching).      *)
(*                                                                         *)
(* Strings are sequences of symbols.  A user message is a sequence of      *)
(* single characters; a string literal of the program (a fixed reply, a    *)
(* line prefix) or a reply of the knowledge base is one symbol holding the *)
(* whole text.  Similarities are in tenths: 4 stands for 0.4, 10 for 1.0.  *)
(***************************************************************************)
EXTENDS Integers, Sequences, FiniteSets, TLC

VARIABLES
    kb_file,        \* data/knowledge_base.json as json.load reads it: the 'intents' list
    user_sessions,  \* main.py user_sessions: session_id -> Chatbot
    last,           \* the last call made and what it returned
    fm,             \* a single find_most_similar_intent call on given similarities
    constructed,    \* session_id -> number of Chatbot objects built for it so far
    inflight,       \* /chat requests accepted by the server, by request number
    norm            \* a single preprocess_input call on a given text

vars == <<kb_file, user_sessions, last, fm, constructed, inflight, norm>>

-----------------------------------------------------------------------------
(* Bounds *)

MaxIntents == 2     \* intents of a catalog handed to the matcher alone

\* how many patterns one such intent may have
PatternCounts == 0..2

SessionIds == {"s1", "s2"}

\* similarities the embedding may report for a pattern (tenths)
Scores == {-2, 0, 3, 4, 10}

-----------------------------------------------------------------------------
(* Characters *)

CombiningAcute == "U+0301"      \* category Mn
LowerLetters == {"a", "b", "c", "d", "á"}
UpperLetters == {"A", "Á"}
Whitespace == {" "}
Punctuation == {"!"}

\* str.lower, one character
lower_char(c) ==
    CASE c = "A" -> "a"
      [] c = "Á" -> "á"
      [] OTHER -> c

\* unicodedata.normalize('NFD', ...), one character
nfd_char(c) ==
    CASE c = "á" -> <<"a", CombiningAcute>>
      [] c = "Á" -> <<"A", CombiningAcute>>
      [] OTHER -> <<c>>

is_mn(c) == c = CombiningAcute
isalnum(c) == c \in LowerLetters \cup UpperLetters
isspace(c) == c \in Whitespace

RECURSIVE lower(_)
lower(s) == IF s = <<>> THEN <<>> ELSE <<lower_char(Head(s))>> \o lower(Tail(s))

RECURSIVE lstrip(_)
lstrip(s) == IF s # <<>> /\ isspace(Head(s)) THEN lstrip(Tail(s)) ELSE s

RECURSIVE rstrip(_)
rstrip(s) ==
    IF s # <<>> /\ isspace(s[Len(s)]) THEN rstrip(SubSeq(s, 1, Len(s) - 1)) ELSE s

strip(s) == rstrip(lstrip(s))

RECURSIVE nfd(_)
nfd(s) == IF s = <<>> THEN <<>> ELSE nfd_char(Head(s)) \o nfd(Tail(s))

RECURSIVE drop_marks(_)
drop_marks(s) ==
    IF s = <<>> THEN <<>>
    ELSE (IF is_mn(Head(s)) THEN <<>> ELSE <<Head(s)>>) \o drop_marks(Tail(s))

RECURSIVE keep_alnum_space(_)
keep_alnum_space(s) ==
    IF s = <<>> THEN <<>>
    ELSE (IF isalnum(Head(s)) \/ isspace(Head(s)) THEN <<Head(s)>> ELSE <<>>)
         \o keep_alnum_space(Tail(s))

\* the text preprocess_input hands to self.nlp
normalize(user_input) == keep_alnum_space(drop_marks(nfd(strip(lower(user_input)))))

-----------------------------------------------------------------------------
(* The spaCy model: a Doc and Doc.similarity *)

nlp(text) == [text |-> text]

has_vector(doc) == \E k \in 1..Len(doc.text) : isalnum(doc.text[k])

\* cosine of the vectors of two different texts, as es_core_news_md is taken
\* to report it here
vector_cosine(t1, t2) ==
    LET p == {t1, t2} IN
    CASE p = {<<"a">>, <<"b">>} -> 5
      [] p = {<<"a">>, <<"c">>} -> 3
      [] p = {<<"b">>, <<"c">>} -> 3
      [] p = {<<"a">>, <<"d">>} -> 4
      [] p = {<<"b">>, <<"d">>} -> -2
      [] OTHER -> 0

similarity(doc, other) ==
    IF doc.text = other.text THEN 10
    ELSE IF ~has_vector(doc) \/ ~has_vector(other) THEN 0
    ELSE vector_cosine(doc.text, other.text)

preprocess_input(user_input) == nlp(normalize(user_input))

-----------------------------------------------------------------------------
(* Knowledge base *)

EmptyPrompt == <<"Por favor, escribe algo.">>
Apology == <<"Lo siento, no estoy seguro de cómo responder a eso.">>

Greeting ==
    [tag |-> "greeting", patterns |-> << <<"a">> >>,
     responses |-> << <<"Hola! En que puedo ayudarte?">>, <<"Buenas!">> >>]
Price ==
    [tag |-> "price", patterns |-> << <<"b">> >>,
     responses |-> << <<"Cuesta 10.">> >>]
Fallback ==
    [tag |-> "fallback", patterns |-> <<>>,
     responses |-> << <<"No estoy seguro...">> >>]

\* what open + json.load find at knowledge_base_path
KBFiles ==
    { [status |-> "ok", intents |-> <<Greeting, Price, Fallback>>],
      [status |-> "ok", intents |-> <<Greeting, Price>>],
      [status |-> "missing", intents |-> <<>>],
      [status |-> "malformed", intents |-> <<>>] }

load_knowledge_base(file) ==
    IF file.status = "ok" THEN file.intents ELSE <<>>

\* variant: the last pattern of every intent is left out
preprocess_intents_short(intents) ==
    [i \in 1..Len(intents) |->
        [tag |-> intents[i].tag,
         patterns |-> intents[i].patterns,
         responses |-> intents[i].responses,
         patterns_processed |->
            [j \in 1..(Len(intents[i].patterns) - 1) |-> nlp(intents[i].patterns[j])]]]

preprocess_intents(intents) ==
    [i \in 1..Len(intents) |->
        [tag |-> intents[i].tag,
         patterns |-> intents[i].patterns,
         responses |-> intents[i].responses,
         patterns_processed |->
            [j \in 1..Len(intents[i].patterns) |-> nlp(intents[i].patterns[j])]]]

\* Chatbot.__init__
Chatbot(file, max_history) ==
    [intents |-> preprocess_intents(load_knowledge_base(file)),
     max_history |-> max_history,
     conversation_history |-> <<>>]

-----------------------------------------------------------------------------
(* History *)

\* variant: a full history drops the new turn instead of the oldest one
deque_append_keeps_oldest(history, maxlen, turn) ==
    LET h == Append(history, turn) IN
    IF Len(h) > maxlen THEN SubSeq(h, 1, maxlen) ELSE h

\* deque(maxlen=max_history).append
deque_append(history, maxlen, turn) ==
    LET h == Append(history, turn) IN
    IF Len(h) > maxlen THEN Tail(h) ELSE h

add_to_history(bot, user_message, bot_response) ==
    [bot EXCEPT !.conversation_history =
        deque_append(@, bot.max_history, [user |-> user_message, bot |-> bot_response])]

clear_history(bot) == [bot EXCEPT !.conversation_history = <<>>]

\* variant: the newest turn comes first
RECURSIVE context_lines_newest_first(_)
context_lines_newest_first(history) ==
    IF history = <<>> THEN <<>>
    ELSE context_lines_newest_first(Tail(history))
         \o << <<"Usuario: ">> \o Head(history).user,
                <<"Asistente: ">> \o Head(history).bot >>

RECURSIVE context_lines(_)
context_lines(history) ==
    IF history = <<>> THEN <<>>
    ELSE << <<"Usuario: ">> \o Head(history).user,
            <<"Asistente: ">> \o Head(history).bot >>
         \o context_lines(Tail(history))

\* "\n".join(lines)
RECURSIVE join_lines(_)
join_lines(lines) ==
    IF lines = <<>> THEN <<>>
    ELSE IF Len(lines) = 1 THEN lines[1]
    ELSE lines[1] \o <<"\n">> \o join_lines(Tail(lines))

get_contextual_input(bot, user_input) ==
    IF bot.conversation_history = <<>> THEN user_input
    ELSE join_lines(context_lines(bot.conversation_history))
         \o <<"\n">> \o <<"Usuario: ">> \o user_input

-----------------------------------------------------------------------------
(* Intent matching *)

similarity_threshold == 4

NoIntent == 0       \* None
NotCalled == -1     \* find_most_similar_intent was not called

\* sims[i][j]: processed_input.similarity(intents[i]['patterns_processed'][j])
similarities(processed_input, intents) ==
    [i \in 1..Len(intents) |->
        [j \in 1..Len(intents[i].patterns_processed) |->
            similarity(processed_input, intents[i].patterns_processed[j])]]

\* variant: an equal score replaces the current best
replaces_best_on_tie(current_similarity, best_similarity) ==
    current_similarity >= best_similarity

\* variant: any positive score replaces the current best
replaces_best_if_positive(current_similarity, best_similarity) ==
    current_similarity > 0

\* if current_similarity > best_similarity
replaces_best(current_similarity, best_similarity) ==
    current_similarity > best_similarity

\* the two nested loops, from pattern j of intent i on
RECURSIVE scan(_, _, _, _)
scan(sims, i, j, best) ==
    IF i > Len(sims) THEN best
    ELSE IF j > Len(sims[i]) THEN scan(sims, i + 1, 1, best)
    ELSE scan(sims, i, j + 1,
              IF replaces_best(sims[i][j], best.best_similarity)
              THEN [best_similarity |-> sims[i][j], best_intent |-> i]
              ELSE best)

\* if best_similarity < similarity_threshold
below_threshold(best_similarity) == best_similarity < similarity_threshold

fallback_intents(intents) == {i \in 1..Len(intents) : intents[i].tag = "fallback"}

find_most_similar_intent(intents, sims) ==
    LET best == scan(sims, 1, 1, [best_similarity |-> 0, best_intent |-> NoIntent])
        fb == fallback_intents(intents)
    IN  IF below_threshold(best.best_similarity) /\ fb # {}
        THEN CHOOSE i \in fb : \A k \in fb : i <= k
        ELSE best.best_intent

-----------------------------------------------------------------------------
(* Chatbot.get_response: the definition the class ends up with *)

\* variant: only a missing message is refused
is_empty_input_never(user_input) == FALSE

\* if not user_input
is_empty_input(user_input) == user_input = <<>>

\* variant: no test of matched_intent before its responses are read
responses_for_unchecked(intents, matched_intent) ==
    IF matched_intent # NoIntent
    THEN {[response |-> intents[matched_intent].responses[k],
           intent |-> matched_intent, raised |-> "no"] :
               k \in 1..Len(intents[matched_intent].responses)}
    ELSE {[response |-> <<>>, intent |-> NoIntent, raised |-> "TypeError"]}

\* variant: the response is drawn from the responses of the whole catalog
responses_for_any_intent(intents, matched_intent) ==
    IF matched_intent # NoIntent
    THEN {[response |-> intents[i].responses[k],
           intent |-> matched_intent, raised |-> "no"] :
               i \in 1..Len(intents), k \in 1..1}
    ELSE {[response |-> Apology, intent |-> NoIntent, raised |-> "no"]}

\* what get_response may return once the matcher has answered
responses_for(intents, matched_intent) ==
    IF matched_intent # NoIntent
    THEN IF intents[matched_intent].responses = <<>>
         THEN {[response |-> <<>>, intent |-> matched_intent, raised |-> "IndexError"]}
         ELSE {[response |-> intents[matched_intent].responses[k],
                intent |-> matched_intent, raised |-> "no"] :
                    k \in 1..Len(intents[matched_intent].responses)}
    ELSE {[response |-> Apology, intent |-> NoIntent, raised |-> "no"]}

\* the outcomes of one call and the Chatbot it leaves
get_response(bot, user_input) ==
    IF is_empty_input(user_input)
    THEN {[response |-> EmptyPrompt, intent |-> NotCalled, raised |-> "no", bot |-> bot]}
    ELSE LET processed_input == preprocess_input(user_input)
             matched_intent ==
                find_most_similar_intent(bot.intents,
                                         similarities(processed_input, bot.intents))
         IN  {[response |-> r.response, intent |-> r.intent, raised |-> r.raised,
               bot |-> bot] : r \in responses_for(bot.intents, matched_intent)}

-----------------------------------------------------------------------------
(* The calls *)

\* user messages sent to /chat
Messages == { <<>>, <<" ">>, <<"Á", "!">>, <<"c">> }

\* new inputs handed to get_contextual_input
ContextInputs == { <<"Á", "!">>, <<"c">> }

\* turns recorded by a direct add_to_history call
TurnUsers == { <<"c">>, <<"d">> }
TurnBots == { Apology }

NoSessions == [s \in {} |-> 0]
NoneConstructed == [s \in SessionIds |-> 0]

NoCall ==
    [op |-> "none", session_id |-> "", input |-> <<>>, output |-> <<>>,
     intent |-> NotCalled, raised |-> "no", hlen |-> -1]

FmIdle == [pc |-> "idle", intents |-> <<>>, sims |-> <<>>, result |-> NoIntent]
NormIdle == [pc |-> "idle", input |-> <<>>, output |-> <<>>]
NoRequests == <<>>

\* length of the history of session_id, -1 when there is no such session
history_len(sessions, session_id) ==
    IF session_id \in DOMAIN sessions
    THEN Len(sessions[session_id].conversation_history)
    ELSE -1

\* variant: a Chatbot is built on every call
is_new_session_always(sessions, session_id) == TRUE

\* if session_id not in user_sessions
is_new_session(sessions, session_id) == session_id \notin DOMAIN sessions

\* variant: a new session replaces the map instead of joining it
get_chatbot_for_session_alone(sessions, session_id, file) ==
    IF is_new_session(sessions, session_id)
    THEN (session_id :> Chatbot(file, 5))
    ELSE sessions

\* main.py get_chatbot_for_session: the session map it leaves
get_chatbot_for_session(sessions, session_id, file) ==
    IF is_new_session(sessions, session_id)
    THEN (session_id :> Chatbot(file, 5)) @@ sessions
    ELSE sessions

\* the body of chat_endpoint; it holds no await, so the event loop runs it
\* from its first line to its return without running anything else
chat_call(session_id, message) ==
    LET sessions == get_chatbot_for_session(user_sessions, session_id, kb_file)
    IN  \E r \in get_response(sessions[session_id], message) :
            /\ user_sessions' = [sessions EXCEPT ![session_id] = r.bot]
            /\ constructed' =
                  [constructed EXCEPT ![session_id] =
                      IF is_new_session(user_sessions, session_id) THEN @ + 1 ELSE @]
            /\ last' = [op |-> "chat", session_id |-> session_id, input |-> message,
                        output |-> r.response, intent |-> r.intent,
                        raised |-> r.raised,
                        hlen |-> history_len(user_sessions, session_id)]
            /\ UNCHANGED <<kb_file, fm, norm>>

\* POST /chat
chat_endpoint(session_id, message) ==
    /\ chat_call(session_id, message)
    /\ UNCHANGED inflight

\* variant: the history of every session is cleared
clear_history_endpoint_all(session_id) ==
    /\ user_sessions' =
          [s \in DOMAIN user_sessions |-> clear_history(user_sessions[s])]
    /\ last' = [NoCall EXCEPT !.op = "clear", !.session_id = session_id,
                  !.hlen = history_len(user_sessions, session_id)]
    /\ UNCHANGED <<kb_file, fm, constructed, inflight, norm>>

\* variant: an unknown session is created on the way
clear_history_endpoint_creates(session_id) ==
    /\ user_sessions' =
          [get_chatbot_for_session(user_sessions, session_id, kb_file)
              EXCEPT ![session_id] = clear_history(@)]
    /\ last' = [NoCall EXCEPT !.op = "clear", !.session_id = session_id,
                  !.output = IF session_id \in DOMAIN user_sessions
                             THEN <<"Historial de sesión ", session_id, " limpiado.">>
                             ELSE <<"Sesión no encontrada.">>,
                  !.hlen = history_len(user_sessions, session_id)]
    /\ UNCHANGED <<kb_file, fm, constructed, inflight, norm>>

\* variant: a known session is dropped from the map
clear_history_endpoint_forgets(session_id) ==
    /\ user_sessions' =
          [s \in DOMAIN user_sessions \ {session_id} |-> user_sessions[s]]
    /\ last' = [NoCall EXCEPT !.op = "clear", !.session_id = session_id,
                  !.output = IF session_id \in DOMAIN user_sessions
                             THEN <<"Historial de sesión ", session_id, " limpiado.">>
                             ELSE <<"Sesión no encontrada.">>,
                  !.hlen = history_len(user_sessions, session_id)]
    /\ UNCHANGED <<kb_file, fm, constructed, inflight, norm>>

\* POST /clear-history
clear_history_endpoint(session_id) ==
    /\ IF session_id \in DOMAIN user_sessions
       THEN /\ user_sessions' =
                  [user_sessions EXCEPT ![session_id] = clear_history(@)]
            /\ last' = [NoCall EXCEPT !.op = "clear", !.session_id = session_id,
                          !.output = <<"Historial de sesión ", session_id, " limpiado.">>,
                          !.hlen = history_len(user_sessions, session_id)]
       ELSE /\ user_sessions' = user_sessions
            /\ last' = [NoCall EXCEPT !.op = "clear", !.session_id = session_id,
                          !.output = <<"Sesión no encontrada.">>]
    /\ UNCHANGED <<kb_file, fm, constructed, inflight, norm>>

\* Chatbot.add_to_history called on the Chatbot of a session
AddToHistory(session_id, user_message, bot_response) ==
    /\ session_id \in DOMAIN user_sessions
    /\ user_sessions' =
          [user_sessions EXCEPT
              ![session_id] = add_to_history(@, user_message, bot_response)]
    /\ last' = [NoCall EXCEPT !.op = "add", !.session_id = session_id,
                  !.input = user_message, !.output = bot_response,
                  !.hlen = history_len(user_sessions, session_id)]
    /\ UNCHANGED <<kb_file, fm, constructed, inflight, norm>>

\* Chatbot.get_contextual_input called on the Chatbot of a session
GetContextualInput(session_id, user_input) ==
    /\ session_id \in DOMAIN user_sessions
    /\ last' = [NoCall EXCEPT !.op = "context", !.session_id = session_id,
                  !.input = user_input,
                  !.output = get_contextual_input(user_sessions[session_id], user_input),
                  !.hlen = history_len(user_sessions, session_id)]
    /\ UNCHANGED <<kb_file, user_sessions, fm, constructed, inflight, norm>>

Init ==
    /\ kb_file \in KBFiles
    /\ user_sessions = NoSessions
    /\ last = NoCall
    /\ fm = FmIdle
    /\ constructed = NoneConstructed
    /\ inflight = NoRequests
    /\ norm = NormIdle

Next ==
    \/ \E session_id \in SessionIds, message \in Messages :
          chat_endpoint(session_id, message)
    \/ \E session_id \in SessionIds : clear_history_endpoint(session_id)
    \/ \E session_id \in SessionIds, u \in TurnUsers, b \in TurnBots :
          AddToHistory(session_id, u, b)
    \/ \E session_id \in SessionIds, message \in ContextInputs :
          GetContextualInput(session_id, message)

Spec == Init /\ [][Next]_vars

-----------------------------------------------------------------------------
(* find_most_similar_intent on its own: any catalog, any similarities *)

Tags == {"greeting", "fallback"}

SeqsUpTo(S, n) == UNION {[1..k -> S] : k \in 0..n}
SeqsOfLen(S, lens) == UNION {[1..k -> S] : k \in lens}

\* an intent of the catalog with the similarity of the input to each pattern
ScoredIntents == {[tag |-> t, sims |-> s] : t \in Tags, s \in SeqsOfLen(Scores, PatternCounts)}

scored_catalog(c) ==
    preprocess_intents(
        [i \in 1..Len(c) |->
            [tag |-> c[i].tag,
             patterns |-> [j \in 1..Len(c[i].sims) |-> <<"w", ToString(i), ToString(j)>>],
             responses |-> << <<"ok">> >>]])

InitMatch ==
    /\ kb_file = [status |-> "missing", intents |-> <<>>]
    /\ user_sessions = NoSessions
    /\ last = NoCall
    /\ constructed = NoneConstructed
    /\ inflight = NoRequests
    /\ norm = NormIdle
    /\ \E c \in SeqsUpTo(ScoredIntents, MaxIntents) :
          fm = [pc |-> "call", intents |-> scored_catalog(c),
                sims |-> [i \in 1..Len(c) |-> c[i].sims], result |-> NoIntent]

FindMostSimilarIntent ==
    /\ fm.pc = "call"
    /\ fm' = [fm EXCEPT !.pc = "done",
                        !.result = find_most_similar_intent(fm.intents, fm.sims)]
    /\ UNCHANGED <<kb_file, user_sessions, last, constructed, inflight, norm>>

NextMatch == FindMostSimilarIntent

SpecMatch == InitMatch /\ [][NextMatch]_vars

-----------------------------------------------------------------------------
(* A knowledge base whose intents have no responses *)

GreetingSilent == [tag |-> "greeting", patterns |-> << <<"a">> >>, responses |-> <<>>]
FallbackSilent == [tag |-> "fallback", patterns |-> <<>>, responses |-> <<>>]

SilentKBFiles ==
    { [status |-> "ok", intents |-> <<GreetingSilent, Price, FallbackSilent>>] }

InitSilent ==
    /\ kb_file \in SilentKBFiles
    /\ user_sessions = NoSessions
    /\ last = NoCall
    /\ fm = FmIdle
    /\ constructed = NoneConstructed
    /\ inflight = NoRequests
    /\ norm = NormIdle

SpecSilent == InitSilent /\ [][Next]_vars

-----------------------------------------------------------------------------
(* /chat requests in flight together *)

MaxRequests == 2    \* requests the server accepts in one run

\* messages of these requests
RequestMessages == { <<>>, <<"c">> }

\* the server accepts a request; its handler has not started
receive_request(session_id, message) ==
    /\ Len(inflight) < MaxRequests
    /\ inflight' = Append(inflight,
                          [session_id |-> session_id, message |-> message,
                           stage |-> "received", is_new |-> FALSE])
    /\ UNCHANGED <<kb_file, user_sessions, last, fm, constructed, norm>>

\* variant: the handler gives way to the event loop between the lookup of
\* the session and its creation
handle_request_awaits(r) ==
    LET session_id == inflight[r].session_id
        message == inflight[r].message
    IN
    \/ /\ inflight[r].stage = "received"
       /\ inflight' = [inflight EXCEPT
                          ![r].stage = "checked",
                          ![r].is_new = is_new_session(user_sessions, session_id)]
       /\ UNCHANGED <<kb_file, user_sessions, last, fm, constructed, norm>>
    \/ /\ inflight[r].stage = "checked"
       /\ LET sessions ==
                 IF inflight[r].is_new
                 THEN (session_id :> Chatbot(kb_file, 5)) @@ user_sessions
                 ELSE user_sessions
          IN  \E x \in get_response(sessions[session_id], message) :
                 /\ user_sessions' = [sessions EXCEPT ![session_id] = x.bot]
                 /\ constructed' =
                       [constructed EXCEPT ![session_id] =
                           IF inflight[r].is_new THEN @ + 1 ELSE @]
                 /\ last' = [op |-> "chat", session_id |-> session_id,
                             input |-> message, output |-> x.response,
                             intent |-> x.intent, raised |-> x.raised,
                             hlen |-> history_len(user_sessions, session_id)]
       /\ inflight' = [inflight EXCEPT ![r].stage = "done"]
       /\ UNCHANGED <<kb_file, fm, norm>>

\* the event loop runs the handler of one accepted request: async def
\* chat_endpoint has no await, so it runs to its return in one step
handle_request(r) ==
    /\ inflight[r].stage = "received"
    /\ chat_call(inflight[r].session_id, inflight[r].message)
    /\ inflight' = [inflight EXCEPT ![r].stage = "done"]

InitConcurrent ==
    /\ kb_file \in KBFiles
    /\ user_sessions = NoSessions
    /\ last = NoCall
    /\ fm = FmIdle
    /\ constructed = NoneConstructed
    /\ inflight = NoRequests
    /\ norm = NormIdle

NextConcurrent ==
    \/ \E session_id \in SessionIds, message \in RequestMessages :
          receive_request(session_id, message)
    \/ \E r \in DOMAIN inflight : handle_request(r)

SpecConcurrent == InitConcurrent /\ [][NextConcurrent]_vars

-----------------------------------------------------------------------------
(* preprocess_input on its own: any short text *)

MaxLen == 3     \* characters of the text

NormChars == {"a", "Á", " ", "!", CombiningAcute}

InitNorm ==
    /\ kb_file = [status |-> "missing", intents |-> <<>>]
    /\ user_sessions = NoSessions
    /\ last = NoCall
    /\ fm = FmIdle
    /\ constructed = NoneConstructed
    /\ inflight = NoRequests
    /\ \E t \in SeqsUpTo(NormChars, MaxLen) :
          norm = [pc |-> "call", input |-> t, output |-> <<>>]

PreprocessInput ==
    /\ norm.pc = "call"
    /\ norm' = [norm EXCEPT !.pc = "done",
                            !.output = preprocess_input(norm.input).text]
    /\ UNCHANGED <<kb_file, user_sessions, last, fm, constructed, inflight>>

NextNorm == PreprocessInput

SpecNorm == InitNorm /\ [][NextNorm]_vars

-----------------------------------------------------------------------------
(* Properties *)

History(session_id) == user_sessions[session_id].conversation_history

Max(S) == CHOOSE x \in S : \A y \in S : y <= x
Min(S) == CHOOSE x \in S : \A y \in S : x <= y

\* every similarity of one call
SimsOf(sims) == UNION {{sims[i][j] : j \in 1..Len(sims[i])} : i \in 1..Len(sims)}

\* the highest similarity of one call, 0.0 when none is positive
MaxSim(sims) == Max({0} \cup SimsOf(sims))

\* the intents owning a pattern of similarity x
Owners(sims, x) == {i \in 1..Len(sims) : \E j \in 1..Len(sims[i]) : sims[i][j] = x}

\* the similarities of the message of the last /chat call
LastSims ==
    similarities(nlp(normalize(last.input)), user_sessions[last.session_id].intents)

LastTurn == [user |-> last.input, bot |-> last.output]

\* C1: a /chat call with a non-empty message appends the turn
\* {user: message, bot: response} to the history of its session, so the
\* history is one turn longer (up to max_history) and ends with that turn.
C1_ChatAppendsTurn ==
    (last.op = "chat" /\ last.input # <<>> /\ last.raised = "no") =>
        LET h == History(last.session_id)
            before == IF last.hlen < 0 THEN 0 ELSE last.hlen
        IN  /\ Len(h) = Min({before + 1, user_sessions[last.session_id].max_history})
            /\ h[Len(h)] = LastTurn

\* C2: a history never holds more than max_history turns; appending to a
\* history below capacity adds the turn at the end, appending to a full one
\* drops exactly the oldest turn and keeps the others in order.
C2_HistoryBoundedFifo ==
    [][ /\ \A s \in DOMAIN user_sessions' :
              Len(user_sessions'[s].conversation_history) <= user_sessions'[s].max_history
        /\ last'.op = "add" =>
              LET s == last'.session_id
                  old == user_sessions[s].conversation_history
                  new == user_sessions'[s].conversation_history
                  turn == [user |-> last'.input, bot |-> last'.output]
              IN  IF Len(old) = user_sessions[s].max_history
                  THEN new = Append(Tail(old), turn)
                  ELSE new = Append(old, turn)
      ]_vars

C2_Witness ==
    /\ last.op = "add"
    /\ last.hlen = 5
    /\ Len(History(last.session_id)) = 5
    /\ History(last.session_id)[5] = LastTurn
    /\ History(last.session_id)[4].user # last.input

RECURSIVE Contains(_, _)
\* sub occurs in s as a run of consecutive symbols
Contains(s, sub) ==
    /\ Len(s) >= Len(sub)
    /\ \/ SubSeq(s, 1, Len(sub)) = sub
       \/ Contains(Tail(s), sub)

TurnText(turn) ==
    <<"Usuario: ">> \o turn.user \o <<"\n">> \o <<"Asistente: ">> \o turn.bot

Turns(session_id) == {History(session_id)[k] : k \in 1..Len(History(session_id))}

\* the contextual input just built holds no turn that only another session has
NoForeignTurn ==
    last.op = "context" =>
        \A s \in DOMAIN user_sessions \ {last.session_id} :
            \A t \in Turns(s) \ Turns(last.session_id) :
                ~Contains(last.output, TurnText(t))

\* C3: a call addressed to one session leaves every other session as it was,
\* and the contextual input built for a session holds no turn recorded only
\* in another session.
C3_SessionIsolation ==
    [][ /\ \A s \in DOMAIN user_sessions :
              s # last'.session_id =>
                  /\ s \in DOMAIN user_sessions'
                  /\ user_sessions'[s] = user_sessions[s]
        /\ NoForeignTurn'
      ]_vars

C3_Witness ==
    /\ DOMAIN user_sessions = SessionIds
    /\ last.op = "context"
    /\ History(last.session_id) # <<>>
    /\ \E s \in SessionIds \ {last.session_id} :
          Turns(s) \ Turns(last.session_id) # {}

\* C4: when the best similarity equals the threshold the best intent is
\* rejected: with a fallback intent in the catalog, the fallback intent is
\* what find_most_similar_intent returns.
C4_EqualToThresholdRejected ==
    (/\ fm.pc = "done"
     /\ MaxSim(fm.sims) = similarity_threshold
     /\ fallback_intents(fm.intents) # {})
        => fm.result = Min(fallback_intents(fm.intents))

\* C5: when the best similarity is below the threshold and no intent is
\* tagged 'fallback', the matcher returns no intent and /chat answers with
\* the generic apology.
C5_NoFallbackGivesApology ==
    (/\ last.op = "chat"
     /\ last.intent # NotCalled
     /\ fallback_intents(user_sessions[last.session_id].intents) = {}
     /\ MaxSim(LastSims) < similarity_threshold)
        => /\ last.intent = NoIntent
           /\ last.output = Apology

\* C6: among the patterns of highest similarity the first one in catalog
\* order decides: the scan ends with the first intent owning such a pattern
\* as its best intent, and that intent is returned when the similarity is
\* accepted; a later pattern of equal similarity never takes its place.
C6_FirstBestWins ==
    fm.pc = "done" =>
        LET mx == MaxSim(fm.sims)
            best == scan(fm.sims, 1, 1, [best_similarity |-> 0, best_intent |-> NoIntent])
        IN  /\ mx > 0 =>
                /\ best.best_similarity = mx
                /\ best.best_intent = Min(Owners(fm.sims, mx))
            /\ mx >= similarity_threshold => fm.result = Min(Owners(fm.sims, mx))

C6_Witness ==
    /\ fm.pc = "done"
    /\ MaxSim(fm.sims) >= similarity_threshold
    /\ Cardinality(Owners(fm.sims, MaxSim(fm.sims))) = 2
    /\ fm.result = 1

\* C7: when the highest similarity of the catalog is accepted (it is not
\* below the threshold), the returned intent owns a pattern of that highest
\* similarity.
C7_AcceptedBestIsReturned ==
    (fm.pc = "done" /\ MaxSim(fm.sims) >= similarity_threshold) =>
        /\ fm.result # NoIntent
        /\ fm.result \in Owners(fm.sims, MaxSim(fm.sims))

C7_Witness ==
    /\ fm.pc = "done"
    /\ MaxSim(fm.sims) = 10
    /\ Len(fm.intents) = 2
    /\ fm.intents[1].tag = "fallback"
    /\ fm.result = 2
    /\ Owners(fm.sims, 3) = {1}

\* C8: with an empty catalog (file missing or malformed) every session has
\* no intents, the matcher returns no intent without raising, and /chat
\* answers a message with the generic apology.
C8_EmptyCatalogGivesApology ==
    kb_file.status # "ok" =>
        /\ \A s \in DOMAIN user_sessions : user_sessions[s].intents = <<>>
        /\ (last.op = "chat" /\ last.input # <<>>) =>
              /\ last.intent = NoIntent
              /\ last.raised = "no"
              /\ last.output = Apology

C8_Witness ==
    /\ kb_file.status = "malformed"
    /\ last.op = "chat"
    /\ last.input = <<"Á", "!">>
    /\ last.output = Apology

\* C9: /chat with the empty message answers 'Por favor, escribe algo.' and
\* leaves the history of its session as it was.
C9_EmptyMessagePrompt ==
    [][ (last'.op = "chat" /\ last'.input = <<>>) =>
            /\ last'.output = EmptyPrompt
            /\ last'.raised = "no"
            /\ last'.session_id \in DOMAIN user_sessions =>
                  user_sessions'[last'.session_id].conversation_history
                      = user_sessions[last'.session_id].conversation_history
            /\ last'.session_id \notin DOMAIN user_sessions =>
                  user_sessions'[last'.session_id].conversation_history = <<>>
      ]_vars

C9_Witness ==
    /\ last.op = "chat"
    /\ last.input = <<>>
    /\ last.hlen = 5
    /\ Len(History(last.session_id)) = 5
    /\ last.output = EmptyPrompt

WhitespaceOnly(s) == s # <<>> /\ \A k \in 1..Len(s) : isspace(s[k])

\* C10: /chat with a message of whitespace only is refused like the empty
\* message: it answers the fixed prompt and the matcher is not called.
C10_WhitespaceRefused ==
    (last.op = "chat" /\ WhitespaceOnly(last.input)) =>
        /\ last.output = EmptyPrompt
        /\ last.intent = NotCalled


\* the sessions that were in the map are still there, each as it was
SessionsKept ==
    \A s \in DOMAIN user_sessions :
        /\ s \in DOMAIN user_sessions'
        /\ user_sessions'[s] = user_sessions[s]

\* C11 as stated: /chat with the empty message changes neither a history
\* nor the session map, also for a session_id never seen before.
C11_EmptyMessageNoMutation ==
    [][ (last'.op = "chat" /\ last'.input = <<>>) => user_sessions' = user_sessions
      ]_vars

\* C11 as amended: /chat with the empty message leaves every session of the
\* map as it was; the map is unchanged when the session_id is known, and for
\* a session_id never seen before it gains one new session with an empty
\* history and nothing else.
C11_EmptyMessageKeepsSessions ==
    [][ (last'.op = "chat" /\ last'.input = <<>>) =>
            /\ SessionsKept
            /\ DOMAIN user_sessions' = DOMAIN user_sessions \cup {last'.session_id}
            /\ last'.session_id \notin DOMAIN user_sessions =>
                  user_sessions'[last'.session_id] = Chatbot(kb_file, 5)
      ]_vars

C11_Witness ==
    /\ last.op = "chat"
    /\ last.input = <<>>
    /\ last.hlen = -1
    /\ DOMAIN user_sessions = SessionIds
    /\ History(last.session_id) = <<>>
    /\ \E s \in SessionIds : Len(History(s)) = 2

\* C12: /clear-history for a session_id that is not in the map answers
\* 'Sesión no encontrada.' and changes nothing: no session is created and
\* every session keeps its history.
C12_ClearUnknownNoMutation ==
    [][ (last'.op = "clear" /\ last'.session_id \notin DOMAIN user_sessions) =>
            /\ last'.output = <<"Sesión no encontrada.">>
            /\ last'.raised = "no"
            /\ user_sessions' = user_sessions
      ]_vars

C12_Witness ==
    /\ last.op = "clear"
    /\ last.output = <<"Sesión no encontrada.">>
    /\ last.session_id \notin DOMAIN user_sessions
    /\ \E s \in DOMAIN user_sessions : Len(History(s)) = 3

\* C13: /clear-history for a known session empties its history and nothing
\* else: the session stays in the map, is the Chatbot built on first contact,
\* keeps its catalog and max_history, and is in the state of a fresh session;
\* the other sessions are untouched.
C13_ClearKnownKeepsSession ==
    [][ (last'.op = "clear" /\ last'.session_id \in DOMAIN user_sessions) =>
            LET s == last'.session_id IN
            /\ DOMAIN user_sessions' = DOMAIN user_sessions
            /\ user_sessions'[s] =
                  [user_sessions[s] EXCEPT !.conversation_history = <<>>]
            /\ user_sessions'[s] = Chatbot(kb_file, 5)
            /\ constructed' = constructed
            /\ \A t \in DOMAIN user_sessions \ {s} :
                  user_sessions'[t] = user_sessions[t]
      ]_vars

C13_Witness ==
    /\ last.op = "clear"
    /\ last.hlen = 5
    /\ last.session_id \in DOMAIN user_sessions
    /\ History(last.session_id) = <<>>
    /\ user_sessions[last.session_id].max_history = 5
    /\ user_sessions[last.session_id].intents # <<>>

\* C14: a session_id has exactly one Chatbot built for it, on first
\* contact; from then on the id stays in the map with that Chatbot, its
\* catalog and its max_history, and a /chat call with a known id works on it
\* without replacing it.
C14_GetOrCreateIdempotent ==
    [][ \A s \in SessionIds :
            /\ constructed'[s] = IF s \in DOMAIN user_sessions' THEN 1 ELSE 0
            /\ s \in DOMAIN user_sessions =>
                  /\ s \in DOMAIN user_sessions'
                  /\ constructed'[s] = constructed[s]
                  /\ user_sessions'[s].intents = user_sessions[s].intents
                  /\ user_sessions'[s].max_history = user_sessions[s].max_history
                  /\ (last'.op = "chat" /\ last'.session_id = s) =>
                        user_sessions'[s] = user_sessions[s]
      ]_vars

C14_Witness ==
    /\ last.op = "chat"
    /\ last.hlen = 4
    /\ Len(History(last.session_id)) = 4
    /\ constructed[last.session_id] = 1
    /\ DOMAIN user_sessions = SessionIds


\* C15: when the intent the matcher selected has an empty responses list,
\* /chat answers with the generic apology and does not fail.
C15_EmptyResponsesGiveApology ==
    (/\ last.op = "chat"
     /\ last.intent > NoIntent
     /\ user_sessions[last.session_id].intents[last.intent].responses = <<>>)
        => /\ last.raised = "no"
           /\ last.output = Apology

\* the requests whose handler has run
Done == {r \in DOMAIN inflight : inflight[r].stage = "done"}

\* C16: with several /chat requests in flight, whatever the order in which
\* their handlers run: one Chatbot at most is ever built for a session_id,
\* a session once in the map stays there as it is, and each handler takes
\* effect as a whole in one step (lookup, creation and answer) while no other
\* request moves.
C16_RequestsSerialized ==
    [][ /\ \A s \in SessionIds :
              constructed'[s] = IF s \in DOMAIN user_sessions' THEN 1 ELSE 0
        /\ SessionsKept
        /\ \A r \in DOMAIN inflight :
              inflight'[r] # inflight[r] =>
                  /\ inflight[r].stage = "received"
                  /\ inflight'[r] = [inflight[r] EXCEPT !.stage = "done"]
                  /\ \A q \in DOMAIN inflight \ {r} : inflight'[q] = inflight[q]
                  /\ last'.op = "chat"
                  /\ last'.session_id = inflight[r].session_id
                  /\ last'.input = inflight[r].message
                  /\ last'.hlen = history_len(user_sessions, inflight[r].session_id)
                  /\ inflight[r].session_id \in DOMAIN user_sessions'
                  /\ DOMAIN user_sessions' =
                        DOMAIN user_sessions \cup {inflight[r].session_id}
      ]_vars

C16_Witness ==
    /\ Len(inflight) = 2
    /\ inflight[1].stage = "received"
    /\ inflight[2].stage = "done"
    /\ inflight[1].session_id = inflight[2].session_id
    /\ constructed[inflight[1].session_id] = 1
    /\ last.hlen = -1

\* C19: the text preprocess_input hands to the embedder neither starts nor
\* ends with whitespace, holds only alphanumeric or whitespace characters,
\* and normalising it again gives the same text.
C19_NormalizedTextClean ==
    norm.pc = "done" =>
        LET t == norm.output IN
        /\ \A k \in 1..Len(t) : isalnum(t[k]) \/ isspace(t[k])
        /\ t # <<>> => ~isspace(t[1]) /\ ~isspace(t[Len(t)])
        /\ normalize(t) = t


\* the catalog of a session holds, for every intent, one processed pattern
\* per pattern, made from that pattern
PatternsProcessed(bot) ==
    \A i \in 1..Len(bot.intents) :
        /\ Len(bot.intents[i].patterns_processed) = Len(bot.intents[i].patterns)
        /\ \A j \in 1..Len(bot.intents[i].patterns) :
              bot.intents[i].patterns_processed[j].text = bot.intents[i].patterns[j]

\* the catalog of a session is the one the file holds
CatalogOfFile(bot) ==
    LET loaded == load_knowledge_base(kb_file) IN
    /\ Len(bot.intents) = Len(loaded)
    /\ \A i \in 1..Len(loaded) :
          /\ bot.intents[i].tag = loaded[i].tag
          /\ bot.intents[i].patterns = loaded[i].patterns
          /\ bot.intents[i].responses = loaded[i].responses

\* C17: in every session, from its construction on, every intent has as
\* many processed patterns as patterns; /chat and /clear-history (and the
\* other calls) leave the catalog of a session as it was built from the file.
C17_CatalogStable ==
    [][ /\ \A s \in DOMAIN user_sessions' :
              /\ PatternsProcessed(user_sessions'[s])
              /\ CatalogOfFile(user_sessions'[s])
        /\ \A s \in DOMAIN user_sessions :
              user_sessions'[s].intents = user_sessions[s].intents
      ]_vars

C17_Witness ==
    /\ last.op = "chat"
    /\ last.intent = 1
    /\ last.hlen = 0
    /\ constructed[last.session_id] = 1
    /\ Len(user_sessions[last.session_id].intents) = 3
    /\ Len(user_sessions[last.session_id].intents[1].patterns_processed) = 1
    /\ user_sessions[last.session_id].intents[3].patterns_processed = <<>>

RECURSIVE SplitLines(_)
\* str.split("\n")
SplitLines(str) ==
    IF \E k \in 1..Len(str) : str[k] = "\n"
    THEN LET k == Min({x \in 1..Len(str) : str[x] = "\n"})
         IN  <<SubSeq(str, 1, k - 1)>> \o SplitLines(SubSeq(str, k + 1, Len(str)))
    ELSE <<str>>

\* the lines the contextual input is to have for a history and a new input
ExpectedLines(history, user_input) ==
    [k \in 1..(2 * Len(history) + 1) |->
        IF k = 2 * Len(history) + 1 THEN <<"Usuario: ">> \o user_input
        ELSE IF k % 2 = 1 THEN <<"Usuario: ">> \o history[(k + 1) \div 2].user
        ELSE <<"Asistente: ">> \o history[k \div 2].bot]

\* C18: get_contextual_input returns the new input alone when the history
\* is empty; otherwise one user line and one assistant line per turn of the
\* history, oldest turn first, and the new input as the last user line.  The
\* call changes no history.
C18_ContextualInput ==
    [][ last'.op = "context" =>
            LET h == user_sessions[last'.session_id].conversation_history IN
            /\ user_sessions' = user_sessions
            /\ IF h = <<>>
               THEN last'.output = last'.input
               ELSE SplitLines(last'.output) = ExpectedLines(h, last'.input)
      ]_vars

C18_Witness ==
    /\ last.op = "context"
    /\ last.hlen = 5
    /\ History(last.session_id)[1].user # History(last.session_id)[5].user
    /\ Len(SplitLines(last.output)) = 11

Range(f) == {f[k] : k \in DOMAIN f}

====
